---------------------------- MODULE Spec2Model ----------------------------
(***************************************************************************)
(* A model of gostty (src/main.go): the terminal animation player.         *)
(*                                                                         *)
(* Three specifications share this module:                                 *)
(*   Spec        main(): start-up, the signal-listener goroutine, the      *)
(*               animation loop (runAnimation), Terminal.UpdateSize and    *)
(*               Terminal.RenderFrame, the deferred cleanup;               *)
(*   SpecMarkup  Animation.processColorCodes applied to bounded lines;     *)
(*   SpecColor   the colour resolution of ParseArgs applied to bounded     *)
(*               tokens.                                                   *)
(*                                                                         *)
(* Text written to the terminal is a TLA+ string; "ESC" stands for the     *)
(* byte 0x1b.  The text handled by processColorCodes and ParseArgs is a    *)
(* sequence of one-character strings, so that it can be searched and       *)
(* sliced as the Go code does.                                             *)
(*                                                                         *)
(* Time is counted in microseconds: time.Duration counts nanoseconds, and  *)
(* the code only ever uses whole milliseconds of it (Milliseconds()) and   *)
(* compares it with a whole number of seconds.                             *)
(***************************************************************************)
EXTENDS Integers, Sequences, FiniteSets, TLC

VARIABLES
    \* ---- main(), runAnimation and the signal goroutine
    animationJSON,          \* the embedded asset: whether it parses, and its frames
    durationInSeconds,      \* config.durationInSeconds
    frames,                 \* animation.frames (lines already preprocessed)
    frameCount,             \* animation.frameCount
    width,                  \* Terminal fields
    height,
    shouldRender,
    lastFrameIndex,
    lastVerticalPadding,
    lastHorizontalPadding,
    paddingCache,
    newlineCache,
    outputBuffer,
    mainPc,                 \* where the main goroutine is
    sigPc,                  \* where the signal goroutine is
    notified,               \* signal.Notify has registered channel c
    sigPending,             \* number of signals buffered in channel c (0 or 1)
    exited,                 \* the process has ended
    exitCode,
    panicking,              \* the main goroutine is unwinding a runtime panic
    elapsed,                \* now.Sub(start) of the current tick, microseconds
    frameIndex,             \* runAnimation's local: the index passed to RenderFrame
    ticks,                  \* loop iterations started
    stdout,                 \* the kinds of the writes made to the terminal, in order
    lastWrite,              \* the bytes of the most recent frame write
    sizeChanged,            \* observation: the tick's UpdateSize saw a new size
    wrote,                  \* observation: the latest RenderFrame call wrote
    preCall,                \* observation: the render state that call started from
    insertedSince,          \* observation: cache keys inserted since the last resize
    written,                \* observation: what the latest frame write was made for
    \* ---- Animation.processColorCodes
    line,
    highlightColor,
    processed,
    markupPc,
    \* ---- ParseArgs, case "--color"
    colorToken,
    colorArg,
    parsePc

mainVars == <<animationJSON, durationInSeconds, frames, frameCount, width, height,
              shouldRender, lastFrameIndex, lastVerticalPadding,
              lastHorizontalPadding, paddingCache, newlineCache, outputBuffer,
              mainPc, sigPc, notified, sigPending, exited, exitCode, panicking,
              elapsed, frameIndex, ticks, stdout, lastWrite, sizeChanged, wrote,
              preCall, insertedSince, written>>
markupVars == <<line, highlightColor, processed, markupPc>>
colorVars == <<colorToken, colorArg, parsePc>>
vars == <<mainVars, markupVars, colorVars>>

---------------------------------------------------------------------------
(* Program constants.                                                      *)

ImageWidth == 77
ImageHeight == 41
MicrosPerFrame == 35000
FrameDelay == MicrosPerFrame \div 1000
ClearAndHome == "ESC[2JESC[H"
DefaultDuration == 0
FallbackWidth == 80
FallbackHeight == 24

\* time.Millisecond and time.Second, in the model's microseconds.
Millisecond == 1000
Second == 1000000

\* time.Duration is a signed 64-bit count; the model keeps the wrap-around of
\* the multiplication at a width TLC's integers can hold.
DurationBits == 24

---------------------------------------------------------------------------
(* Bounds of the model.                                                    *)

MaxTicks == 3

\* Elapsed times (microseconds) the clock may show at a tick.
Times == {0, 34999, 35000, 140000, 141000, 176000, 1000000, 2000000}

\* What term.GetSize may report; <<0, 0>> is its answer when it fails.
Sizes == {<<0, 0>>, <<79, 24>>, <<80, 24>>, <<100, 50>>}

\* Values of -t.  9 seconds overflow the modelled Duration.
Durations == {-1, DefaultDuration, 1, 2, 9}

\* Parsed assets: no frame, one frame without lines, four frames.
Assets == { << >>,
            << << >> >>,
            << <<"f0a", "f0b">>, <<"f1">>, <<"f2a", "f2b">>, <<"f3">> >> }

---------------------------------------------------------------------------
(* Helpers.                                                                *)

\* A faulty variant: the value is not clamped.
MaxUnclamped(a, b) == b

Max(a, b) == IF a >= b THEN a ELSE b

\* Go's integer division truncates toward zero.
GoDiv(a, b) == IF a >= 0 THEN a \div b ELSE -((-a) \div b)

RECURSIVE Repeat(_, _)
Repeat(s, n) == IF n <= 0 THEN "" ELSE s \o Repeat(s, n - 1)

EmptyCache == << >>

\* Values of the observation variables before anything was observed.
NoKeys == [padding |-> {}, newline |-> {}]
NoCall == [lastFrameIndex |-> -1, lastVerticalPadding |-> 0,
           lastHorizontalPadding |-> 0]
NoWrite == [frameIndex |-> -1, verticalPadding |-> 0, horizontalPadding |-> 0,
            width |-> 0, height |-> 0]

NumWrites(kind) == Cardinality({i \in 1..Len(stdout) : stdout[i] = kind})

---------------------------------------------------------------------------
(* Animation: GetFrameLines, FrameCount.                                   *)

\* GetFrameLines: nil (no lines) for an index out of range.  Go indexes from 0.
GetFrameLines(index) ==
    IF index < 0 \/ index >= Len(frames) THEN << >> ELSE frames[index + 1]

---------------------------------------------------------------------------
(* Terminal.                                                               *)

\* term.GetSize as NewTerminal uses it: zero width or height falls back.
NewTerminalSize(sz) ==
    << IF sz[1] = 0 THEN FallbackWidth ELSE sz[1],
       IF sz[2] = 0 THEN FallbackHeight ELSE sz[2] >>

\* GetPaddingString / GetNewlineString: the string returned ...
CachedString(cache, ch, n) ==
    IF n \in DOMAIN cache THEN cache[n] ELSE Repeat(ch, n)

\* ... and the cache afterwards.
CacheAfterGet(cache, ch, n) ==
    IF n \in DOMAIN cache THEN cache ELSE (n :> Repeat(ch, n)) @@ cache

\* UpdateSize, line 231: the queried size differs from the stored one.
SizeDiffers(sz) == sz[1] # width \/ sz[2] # height

\* A faulty variant: the resize keeps the cached strings.
CacheKeptOnResize(cache) == cache

\* UpdateSize, lines 236-237: the caches after a resize.
CacheAfterResize(cache) == EmptyCache

\* A faulty variant: the resize does not ask for a redraw.
FlagKeptOnResize(flag) == flag

\* UpdateSize, line 234: the flag after a resize.
ShouldRenderAfterResize(flag) == TRUE

\* RenderFrame, lines 243-244.
VerticalPadding == Max(0, GoDiv(height - ImageHeight, 2))
HorizontalPadding == Max(0, GoDiv(width - ImageWidth, 2))

\* RenderFrame, lines 247-248.
PaddingChanged ==
    \/ VerticalPadding # lastVerticalPadding
    \/ HorizontalPadding # lastHorizontalPadding

\* A faulty variant: no call is ever skipped.
SkipNever(flag, index) == FALSE

\* A faulty variant: the frame index is not compared.
SkipOnFlagOnly(flag, index) == ~flag

\* RenderFrame, line 257: nothing changed, skip rendering.  `flag` is
\* t.shouldRender as lines 250-254 left it.
SkipRender(flag, index) == ~flag /\ index = lastFrameIndex

\* A faulty variant: every line, the last one too, is ended by "\n".
RECURSIVE RenderLinesEnded(_, _, _)
RenderLinesEnded(lines, i, paddingStr) ==
    IF i > Len(lines) THEN ""
    ELSE paddingStr \o lines[i] \o "\n" \o RenderLinesEnded(lines, i + 1, paddingStr)

\* RenderFrame, lines 278-284: the lines, each after the padding, joined by "\n".
RECURSIVE RenderLines(_, _, _)
RenderLines(lines, i, paddingStr) ==
    IF i > Len(lines) THEN ""
    ELSE paddingStr \o lines[i] \o (IF i < Len(lines) THEN "\n" ELSE "")
         \o RenderLines(lines, i + 1, paddingStr)

\* RenderFrame, lines 266-284: the buffer, started afresh, as it is flushed.
FrameBuffer(index, paddingStr, verticalPaddingStr) ==
    ClearAndHome
    \o (IF VerticalPadding > 0 THEN verticalPaddingStr ELSE "")
    \o RenderLines(GetFrameLines(index), 1, paddingStr)

---------------------------------------------------------------------------
(* runAnimation: the pure parts of a tick.                                 *)

\* int64 wrap-around of a Duration, at the modelled width.
WrapDuration(x) ==
    LET m == x % (2 ^ DurationBits)
    IN  IF m >= 2 ^ (DurationBits - 1) THEN m - 2 ^ DurationBits ELSE m

\* A faulty variant: the comparison is strict.
StopConditionStrict(d, e) == d > 0 /\ e > WrapDuration(d * Second)

\* Line 370: the duration has elapsed.
StopCondition(d, e) == d > 0 /\ e >= WrapDuration(d * Second)

\* A faulty variant: the frames are counted tick by tick.
FrameIndexByTick(e, n) == (ticks - 1) % n

\* Line 379: effectiveElapsed.Milliseconds() / FrameDelay % FrameCount().
FrameIndexAt(e, n) == ((e \div Millisecond) \div FrameDelay) % n

---------------------------------------------------------------------------
(* The main goroutine: main() and runAnimation.                            *)

Running == ~exited

\* A write to the terminal, recorded by its kind: "enter" is the sequence of
\* line 422 (enter the alternate screen, hide the cursor), "restore" that of
\* line 355 (show the cursor, leave the alternate screen), "frame" a flushed
\* frame buffer.
WriteOut(kind) == stdout' = Append(stdout, kind)

terminalVars == <<width, height, shouldRender, lastFrameIndex, lastVerticalPadding,
                  lastHorizontalPadding, paddingCache, newlineCache, outputBuffer>>
signalVars == <<sigPc, sigPending>>
observed == <<sizeChanged, wrote, preCall, insertedSince, written>>

\* A faulty variant: the fatal path restores a terminal it never changed.
LoadAnimationRestoring ==
    /\ Running /\ mainPc = "load"
    /\ IF ~animationJSON.valid
       THEN /\ exited' = TRUE
            /\ exitCode' = 1
            /\ WriteOut("restore")
            /\ UNCHANGED mainPc
       ELSE /\ mainPc' = "setup"
            /\ UNCHANGED <<exited, exitCode, stdout>>
    /\ UNCHANGED <<animationJSON, durationInSeconds, frames, frameCount, terminalVars,
                   signalVars, notified, panicking, elapsed, frameIndex, ticks,
                   lastWrite, observed>>
    /\ UNCHANGED <<markupVars, colorVars>>

\* main, lines 395-400: the asset is parsed; a malformed asset is fatal.
LoadAnimation ==
    /\ Running /\ mainPc = "load"
    /\ IF ~animationJSON.valid
       THEN /\ exited' = TRUE
            /\ exitCode' = 1
            /\ UNCHANGED mainPc
       ELSE /\ mainPc' = "setup"
            /\ UNCHANGED <<exited, exitCode>>
    /\ UNCHANGED <<animationJSON, durationInSeconds, frames, frameCount, terminalVars,
                   signalVars, notified, panicking, elapsed, frameIndex, ticks,
                   stdout, lastWrite, observed>>
    /\ UNCHANGED <<markupVars, colorVars>>

\* main, lines 402-419: NewAnimation, NewTerminal, Initialize, signal.Notify
\* and the start of the listener goroutine.
Setup ==
    /\ Running /\ mainPc = "setup"
    /\ \E sz \in Sizes :
          /\ width' = NewTerminalSize(sz)[1]
          /\ height' = NewTerminalSize(sz)[2]
    /\ shouldRender' = TRUE
    /\ lastFrameIndex' = -1
    /\ lastVerticalPadding' = 0
    /\ lastHorizontalPadding' = 0
    /\ paddingCache' = EmptyCache
    /\ newlineCache' = EmptyCache
    /\ outputBuffer' = ""
    /\ frames' = animationJSON.data
    /\ frameCount' = Len(animationJSON.data)
    /\ notified' = TRUE
    /\ mainPc' = "enter"
    /\ UNCHANGED <<animationJSON, durationInSeconds, signalVars, exited, exitCode,
                   panicking, elapsed, frameIndex, ticks, stdout, lastWrite, observed>>
    /\ UNCHANGED <<markupVars, colorVars>>

\* main, line 422, then runAnimation lines 360-363 (start, the ticker).
EnterAlternateScreen ==
    /\ Running /\ mainPc = "enter"
    /\ WriteOut("enter")
    /\ elapsed' = 0
    /\ mainPc' = "tick"
    /\ UNCHANGED <<animationJSON, durationInSeconds, frames, frameCount, terminalVars,
                   signalVars, notified, exited, exitCode, panicking, frameIndex,
                   ticks, lastWrite, observed>>
    /\ UNCHANGED <<markupVars, colorVars>>

\* runAnimation, lines 366-372 (and 383 of the tick before): the tick is
\* delivered, the clock is sampled and the stop condition is checked.
LoopCheck ==
    /\ Running /\ mainPc = "tick"
    /\ ticks < MaxTicks
    /\ \E now \in Times :
          /\ now >= elapsed
          /\ elapsed' = now
          /\ mainPc' = IF StopCondition(durationInSeconds, now)
                       THEN "returned" ELSE "update"
    /\ ticks' = ticks + 1
    /\ UNCHANGED <<animationJSON, durationInSeconds, frames, frameCount, terminalVars,
                   signalVars, notified, exited, exitCode, panicking, frameIndex,
                   stdout, lastWrite, observed>>
    /\ UNCHANGED <<markupVars, colorVars>>

\* Terminal.UpdateSize, lines 229-239.
UpdateSize ==
    /\ Running /\ mainPc = "update"
    /\ \E sz \in Sizes :
          /\ sizeChanged' = (sz[1] # width \/ sz[2] # height)
          /\ insertedSince' = IF sz[1] # width \/ sz[2] # height
                              THEN NoKeys ELSE insertedSince
          /\ IF SizeDiffers(sz)
             THEN /\ width' = sz[1]
                  /\ height' = sz[2]
                  /\ shouldRender' = ShouldRenderAfterResize(shouldRender)
                  /\ paddingCache' = CacheAfterResize(paddingCache)
                  /\ newlineCache' = CacheAfterResize(newlineCache)
             ELSE UNCHANGED <<width, height, shouldRender, paddingCache, newlineCache>>
    /\ mainPc' = "render"
    /\ UNCHANGED <<animationJSON, durationInSeconds, frames, frameCount,
                   lastFrameIndex, lastVerticalPadding, lastHorizontalPadding,
                   outputBuffer, signalVars, notified, exited, exitCode, panicking,
                   elapsed, frameIndex, ticks, stdout, lastWrite, wrote, preCall,
                   written>>
    /\ UNCHANGED <<markupVars, colorVars>>

\* Terminal.RenderFrame, lines 242-290, called with `index`.
RenderFrame(index) ==
    LET flag == IF PaddingChanged THEN TRUE ELSE shouldRender
        paddingStr == CachedString(paddingCache, " ", HorizontalPadding)
        verticalPaddingStr == CachedString(newlineCache, "\n", VerticalPadding)
        buffer == FrameBuffer(index, paddingStr, verticalPaddingStr)
    IN  /\ preCall' = [lastFrameIndex |-> lastFrameIndex,
                        lastVerticalPadding |-> lastVerticalPadding,
                        lastHorizontalPadding |-> lastHorizontalPadding]
        /\ lastVerticalPadding' =
              IF PaddingChanged THEN VerticalPadding ELSE lastVerticalPadding
        /\ lastHorizontalPadding' =
              IF PaddingChanged THEN HorizontalPadding ELSE lastHorizontalPadding
        /\ IF SkipRender(flag, index)
           THEN /\ shouldRender' = flag
                /\ wrote' = FALSE
                /\ UNCHANGED <<lastFrameIndex, paddingCache, newlineCache,
                               outputBuffer, stdout, lastWrite, insertedSince,
                               written>>
           ELSE /\ paddingCache' = CacheAfterGet(paddingCache, " ", HorizontalPadding)
                /\ newlineCache' = CacheAfterGet(newlineCache, "\n", VerticalPadding)
                /\ insertedSince' =
                      [padding |-> insertedSince.padding \cup
                                     ({HorizontalPadding} \ DOMAIN paddingCache),
                       newline |-> insertedSince.newline \cup
                                     ({VerticalPadding} \ DOMAIN newlineCache)]
                \* FlushBuffer, lines 221-226
                /\ IF Len(buffer) > 0
                   THEN /\ WriteOut("frame")
                        /\ lastWrite' = buffer
                        /\ outputBuffer' = ""
                        /\ wrote' = TRUE
                        /\ written' = [frameIndex |-> index,
                                       verticalPadding |-> VerticalPadding,
                                       horizontalPadding |-> HorizontalPadding,
                                       width |-> width, height |-> height]
                   ELSE /\ outputBuffer' = buffer
                        /\ wrote' = FALSE
                        /\ UNCHANGED <<stdout, lastWrite, written>>
                /\ shouldRender' = FALSE
                /\ lastFrameIndex' = index
        /\ UNCHANGED <<width, height>>

\* runAnimation, lines 378-381: the frame index, then RenderFrame.  The
\* remainder by a frame count of zero is a runtime panic: the goroutine
\* unwinds through the deferred calls.
Render ==
    /\ Running /\ mainPc = "render"
    /\ IF frameCount = 0
       THEN /\ panicking' = TRUE
            /\ mainPc' = "returned"
            /\ UNCHANGED <<terminalVars, frameIndex, stdout, lastWrite, wrote,
                           preCall, insertedSince, written>>
       ELSE /\ frameIndex' = FrameIndexAt(elapsed, frameCount)
            /\ RenderFrame(FrameIndexAt(elapsed, frameCount))
            /\ mainPc' = "tick"
            /\ UNCHANGED panicking
    /\ UNCHANGED <<animationJSON, durationInSeconds, frames, frameCount, signalVars,
                   notified, exited, exitCode, elapsed, ticks, sizeChanged>>
    /\ UNCHANGED <<markupVars, colorVars>>

\* main, line 425: the deferred cleanup(), run when runAnimation has returned
\* or is unwinding.
DeferredCleanup ==
    /\ Running /\ mainPc = "returned"
    /\ WriteOut("restore")
    /\ mainPc' = "cleaned"
    /\ UNCHANGED <<animationJSON, durationInSeconds, frames, frameCount, terminalVars,
                   signalVars, notified, exited, exitCode, panicking, elapsed,
                   frameIndex, ticks, lastWrite, observed>>
    /\ UNCHANGED <<markupVars, colorVars>>

\* main returns (exit code 0), or the runtime ends the panicking process (2).
MainExit ==
    /\ Running /\ mainPc = "cleaned"
    /\ exited' = TRUE
    /\ exitCode' = IF panicking THEN 2 ELSE 0
    /\ UNCHANGED <<animationJSON, durationInSeconds, frames, frameCount, terminalVars,
                   mainPc, signalVars, notified, panicking, elapsed, frameIndex,
                   ticks, stdout, lastWrite, observed>>
    /\ UNCHANGED <<markupVars, colorVars>>

---------------------------------------------------------------------------
(* The signal-listener goroutine, main lines 413-419.                      *)

\* The OS delivers SIGINT or SIGTERM: channel c holds one signal; a signal
\* that finds it full is dropped.
SignalArrives ==
    /\ Running /\ notified
    /\ sigPending = 0 /\ sigPc = "waiting"
    /\ sigPending' = 1
    /\ UNCHANGED <<animationJSON, durationInSeconds, frames, frameCount, terminalVars,
                   mainPc, sigPc, notified, exited, exitCode, panicking, elapsed,
                   frameIndex, ticks, stdout, lastWrite, observed>>
    /\ UNCHANGED <<markupVars, colorVars>>

\* Lines 416-417: <-c, then cleanup().
HandlerCleanup ==
    /\ Running /\ sigPc = "waiting" /\ sigPending = 1
    /\ sigPending' = 0
    /\ WriteOut("restore")
    /\ sigPc' = "cleaned"
    /\ UNCHANGED <<animationJSON, durationInSeconds, frames, frameCount, terminalVars,
                   mainPc, notified, exited, exitCode, panicking, elapsed,
                   frameIndex, ticks, lastWrite, observed>>
    /\ UNCHANGED <<markupVars, colorVars>>

\* Line 418: os.Exit(0).
HandlerExit ==
    /\ Running /\ sigPc = "cleaned"
    /\ exited' = TRUE
    /\ exitCode' = 0
    /\ sigPc' = "exited"
    /\ UNCHANGED <<animationJSON, durationInSeconds, frames, frameCount, terminalVars,
                   mainPc, sigPending, notified, panicking, elapsed, frameIndex,
                   ticks, stdout, lastWrite, observed>>
    /\ UNCHANGED <<markupVars, colorVars>>

---------------------------------------------------------------------------
(* Animation.processColorCodes and ParseArgs: placeholders outside their   *)
(* own specifications.                                                     *)

MarkupIdle ==
    /\ line = << >> /\ highlightColor = << >> /\ processed = << >>
    /\ markupPc = "off"

ColorIdle ==
    /\ colorToken = << >> /\ colorArg = << >> /\ parsePc = "off"

---------------------------------------------------------------------------
(* Spec: the program from main's first statement after ParseArgs.          *)

Init ==
    /\ animationJSON \in {[valid |-> TRUE, data |-> a] : a \in Assets}
                         \cup {[valid |-> FALSE, data |-> << >>]}
    /\ durationInSeconds \in Durations
    /\ frames = << >>
    /\ frameCount = 0
    /\ width = 0 /\ height = 0
    /\ shouldRender = FALSE
    /\ lastFrameIndex = 0
    /\ lastVerticalPadding = 0 /\ lastHorizontalPadding = 0
    /\ paddingCache = EmptyCache /\ newlineCache = EmptyCache
    /\ outputBuffer = ""
    /\ mainPc = "load"
    /\ sigPc = "waiting"
    /\ notified = FALSE
    /\ sigPending = 0
    /\ exited = FALSE
    /\ exitCode = 0
    /\ panicking = FALSE
    /\ elapsed = 0
    /\ frameIndex = 0
    /\ ticks = 0
    /\ stdout = << >>
    /\ lastWrite = ""
    /\ sizeChanged = FALSE
    /\ wrote = FALSE
    /\ preCall = NoCall
    /\ insertedSince = NoKeys
    /\ written = NoWrite
    /\ MarkupIdle
    /\ ColorIdle

Next ==
    \/ LoadAnimation
    \/ Setup
    \/ EnterAlternateScreen
    \/ LoopCheck
    \/ UpdateSize
    \/ Render
    \/ DeferredCleanup
    \/ MainExit
    \/ SignalArrives
    \/ HandlerCleanup
    \/ HandlerExit

Spec == Init /\ [][Next]_vars

---------------------------------------------------------------------------
(* Properties of Spec.                                                     *)

SignalReceived == sigPending = 1 \/ sigPc # "waiting"

\* The latest RenderFrame call has returned and nothing has happened since
\* in the loop.
AfterCall == mainPc = "tick" /\ ticks >= 1

\* This step is a RenderFrame call.
CallStep == mainPc = "render" /\ mainPc' = "tick"

\* C1.  Interrupt safety: once an interrupt or terminate signal has been
\* received, the restoration sequence has been written exactly once when the
\* process exits: never zero times, never twice.
C1_RestoredExactlyOnce ==
    (exited /\ SignalReceived) => NumWrites("restore") = 1

\* C2.  On an interrupted run the restoration sequence is the last thing
\* written: once the signal handler has written it, no later write (a frame,
\* the enter-alternate-screen sequence) follows it on the terminal.
C2_RestoreIsLast ==
    sigPc # "waiting" => stdout[Len(stdout)] = "restore"

\* C3.  Duration stop: with a duration d > 0, a tick whose sampled elapsed
\* time is at least d seconds makes runAnimation return: the loop is never
\* at UpdateSize or RenderFrame in such a tick, so no frame is written for it.
C3_DurationStop ==
    (durationInSeconds > 0 /\ elapsed >= durationInSeconds * 1000000)
        => /\ mainPc \in {"returned", "cleaned"}
           /\ ~panicking

C3_Witness ==
    /\ durationInSeconds = 1 /\ elapsed = 1000000
    /\ mainPc = "returned" /\ ticks >= 2
    /\ NumWrites("frame") >= 1

\* C4, as claimed.  Redraw suppression: two consecutive RenderFrame calls
\* with the same frame index and no geometry change between them make
\* exactly one write in total.
C4_OneWritePerPair ==
    [][(CallStep /\ ticks >= 2 /\ frameIndex' = frameIndex /\ ~sizeChanged)
          => (IF wrote THEN 1 ELSE 0) + (IF wrote' THEN 1 ELSE 0) = 1]_vars

\* C4, amended.  Redraw suppression: of two consecutive RenderFrame calls
\* with the same frame index and no geometry change between them, the second
\* writes nothing (so the two make at most one write); and every call makes
\* one write if the frame index differs from the last rendered one or a
\* redraw was forced (the first call, a geometry change), and none otherwise.
C4_RedrawSuppression ==
    [][CallStep =>
          /\ (ticks >= 2 /\ frameIndex' = frameIndex /\ ~sizeChanged)
                => (stdout' = stdout /\ ~wrote')
          /\ NumWrites("frame")' = NumWrites("frame") +
                (IF frameIndex' # lastFrameIndex \/ ticks = 1 \/ sizeChanged
                 THEN 1 ELSE 0)
          /\ wrote' = (NumWrites("frame")' # NumWrites("frame"))]_vars

C4_Witness ==
    /\ AfterCall /\ ticks >= 2
    /\ ~sizeChanged /\ ~wrote
    /\ preCall.lastFrameIndex = frameIndex
    /\ NumWrites("frame") = 1

\* C5.  A geometry change forces a redraw: when the tick's UpdateSize saw a
\* size different from the stored one, the RenderFrame call that follows
\* writes, whatever the frame index and the padding.
C5_ResizeForcesRedraw ==
    (AfterCall /\ sizeChanged) => wrote

\* The width changed by one column, the padding and the frame index did not.
C5_Witness ==
    /\ AfterCall /\ sizeChanged /\ wrote
    /\ width = 80 /\ height = 24
    /\ preCall.lastFrameIndex = frameIndex
    /\ preCall.lastVerticalPadding = lastVerticalPadding
    /\ preCall.lastHorizontalPadding = lastHorizontalPadding

\* C6.  Cache invalidation: right after an UpdateSize that saw a new size
\* both caches are empty, and in every state every cache entry was inserted
\* after the most recent geometry change.
C6_CachesInvalidated ==
    /\ (mainPc = "render" /\ sizeChanged)
          => (paddingCache = << >> /\ newlineCache = << >>)
    /\ DOMAIN paddingCache \subseteq insertedSince.padding
    /\ DOMAIN newlineCache \subseteq insertedSince.newline

\* A resize has just emptied caches that held entries.
C6_Witness ==
    /\ mainPc = "render" /\ sizeChanged /\ ticks >= 2
    /\ NumWrites("frame") >= 1
    /\ paddingCache = << >> /\ newlineCache = << >>

\* C7.  Frame selection is drift-free: the index passed to RenderFrame is
\* floor(elapsed milliseconds / 35) mod frameCount, lies in [0, frameCount),
\* and depends on the elapsed time only (frameCount = 4: 140 ms -> 0,
\* 141 ms -> 0, 176 ms -> 1).
C7_FrameSelection ==
    (AfterCall /\ frameCount >= 1) =>
        /\ frameIndex \in 0..(frameCount - 1)
        /\ \E q \in 0..(elapsed \div 35000) :
              /\ 35 * q <= elapsed \div 1000
              /\ elapsed \div 1000 < 35 * (q + 1)
              /\ (q - frameIndex) % frameCount = 0
        /\ (frameCount = 4 /\ elapsed = 140000) => frameIndex = 0
        /\ (frameCount = 4 /\ elapsed = 141000) => frameIndex = 0
        /\ (frameCount = 4 /\ elapsed = 176000) => frameIndex = 1

\* The third tick is late: 176 ms have passed, and frame 1 is shown.
C7_Witness ==
    /\ AfterCall /\ ticks = 3
    /\ frameCount = 4 /\ elapsed = 176000 /\ frameIndex = 1

\* The Terminal has been constructed.
Constructed == mainPc \notin {"load", "setup"}

\* C11.  Terminal size fallback: whenever the size query is unavailable or
\* reports zero, the stored geometry is 80 x 24, at construction and after
\* every UpdateSize; the stored width and height are never zero.
C11_SizeFallback ==
    Constructed => (width # 0 /\ height # 0)

\* C12.  Fatal start-up error: when the asset fails to parse the process
\* exits with code 1 and nothing has been written to the terminal; and on a
\* run that enters the alternate screen the enter sequence is written exactly
\* once, before the first frame.
C12_FatalStartup ==
    /\ ~animationJSON.valid => stdout = << >>
    /\ (exited /\ ~animationJSON.valid) => exitCode = 1
    /\ (exited /\ exitCode = 1) => ~animationJSON.valid
    /\ NumWrites("enter") <= 1
    /\ mainPc \in {"tick", "update", "render", "returned", "cleaned"}
          => NumWrites("enter") = 1
    /\ \A i \in 1..Len(stdout) :
          stdout[i] = "frame" => \E j \in 1..(i - 1) : stdout[j] = "enter"

C12_Witness ==
    /\ exited /\ ~animationJSON.valid
    /\ exitCode = 1 /\ stdout = << >>

\* runAnimation has returned through its return statement (line 371).
Returned == mainPc \in {"returned", "cleaned"} /\ ~panicking

\* C13.  The loop leaves RUNNING only through the stop condition: with
\* d <= 0 runAnimation never returns, and with d > 0 it never returns at a
\* tick whose sampled elapsed time is less than d seconds.
C13_ReturnsOnlyWhenDue ==
    Returned => /\ durationInSeconds > 0
                /\ elapsed >= durationInSeconds * Second

\* C14.  Termination: a run with a configured duration d > 0, and a run
\* ended by the interrupt handler, ends with the restoration written and
\* exit code 0.
C14_EndsRestoredWithZero ==
    (exited /\ animationJSON.valid /\ (durationInSeconds > 0 \/ sigPc = "exited"))
        => (exitCode = 0 /\ NumWrites("restore") >= 1)

\* The scheduler runs a goroutine that can take a step: main after
\* runAnimation is over (lines 425-429), the signal goroutine after a signal
\* was received (lines 416-418).
FairSpec ==
    /\ Spec
    /\ WF_vars(DeferredCleanup \/ MainExit)
    /\ WF_vars(HandlerCleanup \/ HandlerExit)

\* The part of C14 that holds: once the stop condition has made runAnimation
\* return, the restoration is written and the process exits with code 0.
StoppedLeadsToExit ==
    Returned ~> (exited /\ exitCode = 0 /\ NumWrites("restore") >= 1)

\* The centring offset of an image of `image` cells in `size` cells.
CenterPad(size, image) ==
    LET half == (size - image) \div 2      \* \div rounds down
    IN  IF half > 0 THEN half ELSE 0

\* n copies of the string s.
RECURSIVE Copies(_, _)
Copies(s, n) == IF n = 0 THEN "" ELSE Copies(s, n - 1) \o s

\* The lines, each after `pad`, with one "\n" between two of them.
RECURSIVE Joined(_, _)
Joined(lines, pad) ==
    IF lines = << >> THEN ""
    ELSE IF Len(lines) = 1 THEN pad \o lines[1]
    ELSE Joined(SubSeq(lines, 1, Len(lines) - 1), pad)
            \o "\n" \o pad \o lines[Len(lines)]

\* The bytes of frame `index` centred in a terminal of w x h cells.
ExpectedFrame(index, w, h) ==
    "ESC[2JESC[H"
    \o Copies("\n", CenterPad(h, ImageHeight))
    \o Joined(frames[index + 1], Copies(" ", CenterPad(w, ImageWidth)))

\* C15.  Layout of a rendered frame: a RenderFrame call that is not
\* suppressed (the size changed at this tick, or the index is not the last
\* rendered one) performs exactly one write, of clear-and-home, the vertical
\* padding newlines, and the lines each after the horizontal padding and
\* joined by single newlines, with nothing else before, between or after, and
\* leaves nothing in the output buffer.
C15_FrameLayout ==
    [][(CallStep /\ (sizeChanged \/ frameIndex' # lastFrameIndex))
          => /\ stdout' = Append(stdout, "frame")
             /\ lastWrite' = ExpectedFrame(frameIndex', width, height)
             /\ outputBuffer' = ""]_vars

C15_Witness ==
    /\ AfterCall /\ wrote
    /\ frameCount = 4 /\ frameIndex = 0
    /\ width = 100 /\ height = 50
    /\ lastWrite = "ESC[2JESC[H\n\n\n\n           f0a\n           f0b"
    /\ NumWrites("frame") >= 2

\* C16.  Centring padding: for every stored geometry, a terminal smaller
\* than the image and a zero geometry included, RenderFrame uses
\* max(0, floor((height - 41) / 2)) and max(0, floor((width - 77) / 2));
\* the padding is never negative and no cached string was asked for with a
\* negative count.
C16_CenteringPadding ==
    /\ AfterCall =>
          /\ lastVerticalPadding = CenterPad(height, ImageHeight)
          /\ lastHorizontalPadding = CenterPad(width, ImageWidth)
          /\ lastVerticalPadding >= 0 /\ lastHorizontalPadding >= 0
    /\ written # NoWrite =>
          /\ written.verticalPadding = CenterPad(written.height, ImageHeight)
          /\ written.horizontalPadding = CenterPad(written.width, ImageWidth)
    /\ \A k \in DOMAIN paddingCache \cup DOMAIN newlineCache : k >= 0

C16_Witness ==
    /\ AfterCall /\ wrote /\ sizeChanged
    /\ width = 0 /\ height = 0
    /\ lastVerticalPadding = 0 /\ lastHorizontalPadding = 0
    /\ DOMAIN paddingCache = {0} /\ DOMAIN newlineCache = {0}

\* C17.  A suppressed call does no work: a RenderFrame call made with the
\* size unchanged at this tick and with the last rendered index writes
\* nothing and leaves the output buffer, both caches, the last frame index,
\* the last padding values, the needs-redraw flag and the geometry as they
\* were.
C17_SuppressedDoesNothing ==
    [][(CallStep /\ ~sizeChanged /\ frameIndex' = lastFrameIndex)
          => UNCHANGED <<stdout, lastWrite, outputBuffer, paddingCache,
                         newlineCache, lastFrameIndex, lastVerticalPadding,
                         lastHorizontalPadding, shouldRender, width, height>>]_vars

C17_Witness ==
    /\ AfterCall /\ ticks = 3
    /\ ~sizeChanged /\ ~wrote
    /\ frameCount = 4 /\ frameIndex = 1 /\ lastFrameIndex = 1
    /\ DOMAIN paddingCache = {CenterPad(width, ImageWidth)}
    /\ outputBuffer = ""

\* C18.  Suppression is sound: whenever a call was suppressed, the latest
\* write was made for the same frame index, the same padding and the same
\* stored geometry, so the screen shows what a redraw would; and after every
\* RenderFrame call the needs-redraw flag is false, the last frame index is
\* the requested one and the last padding values are those of the stored
\* geometry.
C18_SuppressionSound ==
    /\ AfterCall =>
          /\ ~shouldRender
          /\ lastFrameIndex = frameIndex
          /\ lastVerticalPadding = CenterPad(height, ImageHeight)
          /\ lastHorizontalPadding = CenterPad(width, ImageWidth)
    /\ (AfterCall /\ ~wrote) =>
          /\ written = [frameIndex |-> frameIndex,
                        verticalPadding |-> CenterPad(height, ImageHeight),
                        horizontalPadding |-> CenterPad(width, ImageWidth),
                        width |-> width, height |-> height]
          /\ lastWrite = ExpectedFrame(frameIndex, width, height)

C18_Witness ==
    /\ AfterCall /\ ~wrote /\ ticks = 3
    /\ width = 79 /\ height = 24
    /\ frameIndex = 1
    /\ written.frameIndex = 1 /\ written.width = 79
    /\ NumWrites("frame") = 2

\* C19.  Cache growth is bounded: in every state each cache holds at most
\* one entry, whose key is the padding of the stored geometry and whose value
\* is a string of that many spaces (padding cache) or newlines (newline
\* cache).
C19_CacheBounded ==
    /\ Cardinality(DOMAIN paddingCache) <= 1
    /\ Cardinality(DOMAIN newlineCache) <= 1
    /\ \A k \in DOMAIN paddingCache :
          k = CenterPad(width, ImageWidth) /\ paddingCache[k] = Copies(" ", k)
    /\ \A k \in DOMAIN newlineCache :
          k = CenterPad(height, ImageHeight) /\ newlineCache[k] = Copies("\n", k)

C19_Witness ==
    /\ AfterCall /\ ticks >= 2 /\ sizeChanged
    /\ preCall.lastHorizontalPadding = 1
    /\ DOMAIN paddingCache = {11} /\ paddingCache[11] = "           "
    /\ DOMAIN newlineCache = {4} /\ newlineCache[4] = "\n\n\n\n"

\* C20.  No runtime fault: for every asset that parses, one of zero frames
\* included, the loop never faults, RenderFrame is only called with an index
\* in [0, frameCount), and the process ends only with exit code 0.
C20_NoRuntimeFault ==
    animationJSON.valid =>
        /\ ~panicking
        /\ exited => exitCode = 0
        /\ AfterCall => frameIndex \in 0..(frameCount - 1)

---------------------------------------------------------------------------
(* Text as the Go code handles it: a sequence of one-character strings,    *)
(* "ESC" being the byte 0x1b.  Go counts positions from 0.                 *)

\* s[a:b]
Slice(s, a, b) == SubSeq(s, a + 1, b)

\* strings.Index: the first position of sub in s, or -1.
Index(s, sub) ==
    LET at == {i \in 0..(Len(s) - Len(sub)) : Slice(s, i, i + Len(sub)) = sub}
    IN  IF at = {} THEN -1 ELSE CHOOSE i \in at : \A j \in at : i <= j

\* strings.HasPrefix
HasPrefix(s, prefix) ==
    Len(s) >= Len(prefix) /\ Slice(s, 0, Len(prefix)) = prefix

UpperLetters == <<"A", "B", "C", "D", "E", "F", "G", "H", "I", "J", "K", "L", "M",
                  "N", "O", "P", "Q", "R", "S", "T", "U", "V", "W", "X", "Y", "Z">>
LowerLetters == <<"a", "b", "c", "d", "e", "f", "g", "h", "i", "j", "k", "l", "m",
                  "n", "o", "p", "q", "r", "s", "t", "u", "v", "w", "x", "y", "z">>
Digits == {"0", "1", "2", "3", "4", "5", "6", "7", "8", "9"}

LowerChar(c) ==
    IF \E i \in 1..Len(UpperLetters) : UpperLetters[i] = c
    THEN LowerLetters[CHOOSE i \in 1..Len(UpperLetters) : UpperLetters[i] = c]
    ELSE c

UpperChar(c) ==
    IF \E i \in 1..Len(LowerLetters) : LowerLetters[i] = c
    THEN UpperLetters[CHOOSE i \in 1..Len(LowerLetters) : LowerLetters[i] = c]
    ELSE c

\* strings.ToLower
ToLower(s) == [i \in 1..Len(s) |-> LowerChar(s[i])]

---------------------------------------------------------------------------
(* Animation.processColorCodes, lines 105-146.                             *)

ColorStartTag == <<"<", "c", ">">>
ColorEndTag == <<"<", "/", "c", ">">>
ResetColor == <<"ESC", "[", "0", "m">>
DefaultBlue == <<"ESC", "[", "3", "4", "m">>

\* One pass of the loop of lines 109-143 and those after it, from
\* currentIndex with `result` built so far.
RECURSIVE ProcessFrom(_, _, _, _)
ProcessFrom(text, color, currentIndex, result) ==
    LET found == Index(Slice(text, currentIndex, Len(text)), ColorStartTag)
        colorStart == found + currentIndex
        before == IF colorStart > currentIndex
                  THEN result \o Slice(text, currentIndex, colorStart)
                  ELSE result
        contentStart == colorStart + Len(ColorStartTag)
        foundEnd == Index(Slice(text, contentStart, Len(text)), ColorEndTag)
        colorEnd == foundEnd + contentStart
    IN  IF found = -1
        THEN \* no more colour tags: add the remaining content
             IF currentIndex < Len(text)
             THEN result \o Slice(text, currentIndex, Len(text))
             ELSE result
        ELSE IF foundEnd = -1
        THEN \* malformed tag: add the rest
             before \o Slice(text, currentIndex, Len(text))
        ELSE ProcessFrom(text, color, colorEnd + Len(ColorEndTag),
                         before \o color \o Slice(text, contentStart, colorEnd)
                                \o ResetColor)

processColorCodes(text, color) == ProcessFrom(text, color, 0, << >>)

\* Bounds: a line is made of at most MaxPieces pieces.
MaxPieces == 5
Pieces == {<<"a">>, <<"B">>, <<"c">>, <<"<">>, ColorStartTag, ColorEndTag}

RECURSIVE LinesOf(_)
LinesOf(n) ==
    IF n = 0 THEN {<< >>}
    ELSE LET shorter == LinesOf(n - 1)
         IN  shorter \cup {l \o p : l \in shorter, p \in Pieces}

HighlightColors == {DefaultBlue, <<"ESC", "[", "9", "9", "9", "m">>}

\* Initialize, line 87: one line of the asset is preprocessed.
ProcessLine ==
    /\ markupPc = "raw"
    /\ processed' = processColorCodes(line, highlightColor)
    /\ markupPc' = "done"
    /\ UNCHANGED <<line, highlightColor>>
    /\ UNCHANGED <<mainVars, colorVars>>

---------------------------------------------------------------------------
(* ParseArgs, case "--color", lines 311-325.                               *)

EscapeIntroducer == <<"ESC", "[">>

\* colorMap, lines 47-64: pairs of a name and its escape sequence.
colorMap ==
    {
      << <<"b", "l", "a", "c", "k">>,
         <<"ESC", "[", "3", "0", "m">> >>,
      << <<"r", "e", "d">>,
         <<"ESC", "[", "3", "1", "m">> >>,
      << <<"g", "r", "e", "e", "n">>,
         <<"ESC", "[", "3", "2", "m">> >>,
      << <<"y", "e", "l", "l", "o", "w">>,
         <<"ESC", "[", "3", "3", "m">> >>,
      << <<"b", "l", "u", "e">>,
         <<"ESC", "[", "3", "4", "m">> >>,
      << <<"m", "a", "g", "e", "n", "t", "a">>,
         <<"ESC", "[", "3", "5", "m">> >>,
      << <<"c", "y", "a", "n">>,
         <<"ESC", "[", "3", "6", "m">> >>,
      << <<"w", "h", "i", "t", "e">>,
         <<"ESC", "[", "3", "7", "m">> >>,
      << <<"b", "r", "i", "g", "h", "t", "b", "l", "a", "c", "k">>,
         <<"ESC", "[", "9", "0", "m">> >>,
      << <<"b", "r", "i", "g", "h", "t", "r", "e", "d">>,
         <<"ESC", "[", "9", "1", "m">> >>,
      << <<"b", "r", "i", "g", "h", "t", "g", "r", "e", "e", "n">>,
         <<"ESC", "[", "9", "2", "m">> >>,
      << <<"b", "r", "i", "g", "h", "t", "y", "e", "l", "l", "o", "w">>,
         <<"ESC", "[", "9", "3", "m">> >>,
      << <<"b", "r", "i", "g", "h", "t", "b", "l", "u", "e">>,
         <<"ESC", "[", "9", "4", "m">> >>,
      << <<"b", "r", "i", "g", "h", "t", "m", "a", "g", "e", "n", "t", "a">>,
         <<"ESC", "[", "9", "5", "m">> >>,
      << <<"b", "r", "i", "g", "h", "t", "c", "y", "a", "n">>,
         <<"ESC", "[", "9", "6", "m">> >>,
      << <<"b", "r", "i", "g", "h", "t", "w", "h", "i", "t", "e">>,
         <<"ESC", "[", "9", "7", "m">> >>
    }

ColorNames == {e[1] : e \in colorMap}
ColorOf(name) == (CHOOSE e \in colorMap : e[1] = name)[2]

\* digitRegex, ^\d+$
DigitsOnly(s) == Len(s) >= 1 /\ \A i \in 1..Len(s) : s[i] \in Digits

\* A faulty variant: the lookup is case-sensitive.
ColorKeyExact(color) == color

\* The key looked up in colorMap, line 319.
ColorKey(color) == ToLower(color)

\* Lines 313-323: the value config.colorArg takes for the token `color`.
ResolveColor(color) ==
    IF HasPrefix(color, EscapeIntroducer) THEN color
    ELSE IF DigitsOnly(color) THEN EscapeIntroducer \o color \o <<"m">>
    ELSE IF ColorKey(color) \in ColorNames THEN ColorOf(ColorKey(color))
    ELSE DefaultBlue

\* Bounds: every token of at most MaxTokenLen characters of TokenAlphabet,
\* every casing of every colour name, and a few longer tokens.
MaxTokenLen == 3
TokenAlphabet == {"ESC", "[", "1", "9", "m", "r", "R", "e", "E", "d", "D"}

RECURSIVE TokensOf(_)
TokensOf(n) ==
    IF n = 0 THEN {<< >>}
    ELSE LET shorter == TokensOf(n - 1)
         IN  shorter \cup {Append(t, c) : t \in shorter, c \in TokenAlphabet}

Casing(name, upper) ==
    [i \in 1..Len(name) |-> IF i \in upper THEN UpperChar(name[i]) ELSE name[i]]
\* Every casing of a short name; of a "bright" name: lower, upper,
\* capitalised, camel case and alternating.
Casings(name) ==
    IF Len(name) <= 7
    THEN {Casing(name, upper) : upper \in SUBSET (1..Len(name))}
    ELSE {Casing(name, upper) :
             upper \in { {}, 1..Len(name), {1}, {7}, {1, 7},
                         {i \in 1..Len(name) : i % 2 = 1} }}

LongTokens == { <<"n", "o", "t", "a", "c", "o", "l", "o", "r">>,
                <<"1", "2", "a", "b">>,
                <<"a", "b", "1", "2">>,
                <<"9", "9", "9", "9", "9">>,
                <<"r", "e", "d", "1">>,
                <<"r", "e", "d", " ">>,
                <<"ESC", "[", "3", "8", ";", "5", ";", "2", "0", "8", "m">> }

Tokens(n) == TokensOf(n) \cup UNION {Casings(name) : name \in ColorNames}
                 \cup LongTokens

\* The case "--color", "-c" with a value after it.
ParseColor ==
    /\ parsePc = "args"
    /\ colorArg' = ResolveColor(colorToken)
    /\ parsePc' = "done"
    /\ UNCHANGED colorToken
    /\ UNCHANGED <<mainVars, markupVars>>

---------------------------------------------------------------------------
(* Placeholder of the main program outside Spec.                           *)

MainIdle ==
    /\ animationJSON = [valid |-> FALSE, data |-> << >>]
    /\ durationInSeconds = DefaultDuration
    /\ frames = << >>
    /\ frameCount = 0
    /\ width = 0 /\ height = 0
    /\ shouldRender = FALSE
    /\ lastFrameIndex = 0
    /\ lastVerticalPadding = 0 /\ lastHorizontalPadding = 0
    /\ paddingCache = EmptyCache /\ newlineCache = EmptyCache
    /\ outputBuffer = ""
    /\ mainPc = "off"
    /\ sigPc = "off"
    /\ notified = FALSE
    /\ sigPending = 0
    /\ exited = FALSE
    /\ exitCode = 0
    /\ panicking = FALSE
    /\ elapsed = 0
    /\ frameIndex = 0
    /\ ticks = 0
    /\ stdout = << >>
    /\ lastWrite = ""
    /\ sizeChanged = FALSE
    /\ wrote = FALSE
    /\ preCall = NoCall
    /\ insertedSince = NoKeys
    /\ written = NoWrite

---------------------------------------------------------------------------
(* SpecMarkup: processColorCodes on every bounded line.                    *)

InitMarkup ==
    /\ line \in LinesOf(MaxPieces)
    /\ highlightColor \in HighlightColors
    /\ processed = << >>
    /\ markupPc = "raw"
    /\ MainIdle
    /\ ColorIdle

NextMarkup == ProcessLine

SpecMarkup == InitMarkup /\ [][NextMarkup]_vars

---------------------------------------------------------------------------
(* SpecColor: the colour resolution on every bounded token.                *)

InitColor ==
    /\ colorToken \in Tokens(MaxTokenLen)
    /\ colorArg = DefaultBlue
    /\ parsePc = "args"
    /\ MainIdle
    /\ MarkupIdle

NextColor == ParseColor

SpecColor == InitColor /\ [][NextColor]_vars

---------------------------------------------------------------------------
(* Properties of SpecMarkup.                                               *)

\* The expansion the markup stands for: each start marker followed by an end
\* marker becomes colour, text, reset; a start marker without an end marker
\* ends the scan and the rest of the line stays as it is.
RECURSIVE Expand(_, _)
Expand(text, color) ==
    LET start == Index(text, ColorStartTag)
        inner == Slice(text, start + 3, Len(text))
        end == Index(inner, ColorEndTag)
    IN  IF start = -1 THEN text
        ELSE IF end = -1 THEN text
        ELSE Slice(text, 0, start) \o color \o Slice(inner, 0, end) \o ResetColor
                \o Expand(Slice(inner, end + 4, Len(inner)), color)

\* Some start marker of the line has no end marker after it.
HasUnmatchedStart(text) ==
    \E i \in 0..(Len(text) - 3) :
        /\ Slice(text, i, i + 3) = ColorStartTag
        /\ Index(Slice(text, i + 3, Len(text)), ColorEndTag) = -1

\* C8.  Malformed-markup fallback: in a line with an unmatched start marker
\* the part from the scan position on is left as it is, the text before the
\* marker appearing once; "a<c>B" is returned unchanged.
C8_MalformedFallback ==
    (markupPc = "done" /\ HasUnmatchedStart(line)) =>
        /\ processed = Expand(line, highlightColor)
        /\ (Index(line, ColorEndTag) = -1 => processed = line)

\* C9.  Well-formed markup expansion: for every line, each start marker
\* followed by an end marker becomes the colour, the text between them and
\* the reset sequence, and all text outside such pairs is copied verbatim.
C9_MarkupExpansion ==
    markupPc = "done" =>
        /\ processed = Expand(line, highlightColor)
        /\ (Index(line, ColorStartTag) = -1 => processed = line)

\* What does hold of the expansion: it is right for every line in which no
\* start marker lacks its end marker.
WellFormedExpansion ==
    (markupPc = "done" /\ ~HasUnmatchedStart(line)) =>
        processed = Expand(line, highlightColor)

---------------------------------------------------------------------------
(* Properties of SpecColor.                                                *)

SameIgnoringCase(a, b) ==
    /\ Len(a) = Len(b)
    /\ \A i \in 1..Len(a) :
          a[i] = b[i] \/ UpperChar(a[i]) = b[i] \/ a[i] = UpperChar(b[i])

StartsWithEscape(t) == Len(t) >= 2 /\ t[1] = "ESC" /\ t[2] = "["
IsNumber(t) == t # << >> /\ \A i \in 1..Len(t) : t[i] \in Digits
IsColorName(t) == \E e \in colorMap : SameIgnoringCase(t, e[1])

\* C10.  Colour resolution is total, with a fixed precedence: a token that
\* begins with ESC [ is returned unchanged; else a token of digits N gives
\* ESC [ N m; else a colour name in any casing gives that colour's escape;
\* every other token gives the default blue ESC [ 3 4 m.
C10_ColorResolution ==
    parsePc = "done" =>
        /\ StartsWithEscape(colorToken) => colorArg = colorToken
        /\ (~StartsWithEscape(colorToken) /\ IsNumber(colorToken))
              => colorArg = <<"ESC", "[">> \o colorToken \o <<"m">>
        /\ (~StartsWithEscape(colorToken) /\ ~IsNumber(colorToken))
              => \A e \in colorMap :
                    SameIgnoringCase(colorToken, e[1]) => colorArg = e[2]
        /\ (~StartsWithEscape(colorToken) /\ ~IsNumber(colorToken)
              /\ ~IsColorName(colorToken))
              => colorArg = <<"ESC", "[", "3", "4", "m">>
        /\ colorToken \in {<< >>, <<"1", "2", "a", "b">>}
              => colorArg = <<"ESC", "[", "3", "4", "m">>

\* A colour name in mixed case has been resolved.
C10_Witness ==
    /\ parsePc = "done"
    /\ colorToken = <<"b", "r", "i", "g", "h", "t", "C", "y", "a", "n">>
    /\ colorArg = <<"ESC", "[", "9", "6", "m">>

====
